---------------------------- MODULE Spec2Model ----------------------------
(***************************************************************************)
(* State-machine model of the SADG dataset readers                         *)
(* (scene/dataset_readers.py) and of the camera materializer               *)
(* (utils/camera_utils.py).                                                *)
(*                                                                         *)
(* Each reader is one action that models the whole Python function: its   *)
(* inputs are drawn from small sets, its result (a returned value or a    *)
(* raised exception) and its file-system effects are the primed state.    *)
(* Every reader has a specification of its own (SpecLoadCam, ...); the     *)
(* variables of the other readers stay at their idle values there.        *)
(***************************************************************************)
EXTENDS Integers, Sequences, FiniteSets, TLC

\* The value of a name that is not bound (Python's None, a missing file).
None == "None"

(***************************************************************************)
(* Bounds of the model.                                                    *)
(***************************************************************************)
\* loadCam calls in one process
MaxCalls == 3
\* frames in one transform document
MaxFrames == 3
\* worker threads of the ThreadPool
PoolSize == 2
\* cameras in a list handed to getNerfppNorm
MaxCams == 3
\* getNerfppNorm calls on one camera list
MaxNormCalls == 2
\* images of a COLMAP reconstruction
MaxImages == 3
\* loads of one dataset
MaxLoads == 2
\* image ids in a Nerfies manifest (dataset.json)
MaxIds == 5
\* frames in a transforms document of a multi-view dataset
MaxDocFrames == 2

(***************************************************************************)
(* Optional values and exact rationals.  Python floats are modelled by    *)
(* the exact quotient <<numerator, denominator>> in lowest terms.          *)
(***************************************************************************)
NoValue == <<>>
Some(v) == <<v>>

RECURSIVE GCD(_, _)
GCD(a, b) == IF b = 0 THEN a ELSE GCD(b, a % b)

Abs(x) == IF x < 0 THEN -x ELSE x

\* n / d for d # 0, in lowest terms with a positive denominator.
Rat(n, d) ==
    LET g == GCD(Abs(n), Abs(d))
        sgn == IF d < 0 THEN -1 ELSE 1
    IN  <<(sgn * n) \div g, (sgn * d) \div g>>

RatDiv(a, b) == Rat(a[1] * b[2], a[2] * b[1])
RatLeq(a, b) == a[1] * b[2] <= b[1] * a[2]

VARIABLES
    WARNED,       \* camera_utils.WARNED, the module-level flag
    stdout,       \* number of times the oversized-image warning was printed
    camLog,       \* history: one entry per loadCam call, in call order
    lastCam       \* the Camera the last loadCam call returned (None before),
                  \* with the tensor it was cut from

loadCamVars == <<WARNED, stdout, camLog, lastCam>>

VARIABLES
    tcall,        \* the arguments of the readCamerasFromTransforms call in progress
    tpool,        \* the ThreadPool: next task to hand out, tasks running, the
                  \* tasks finished (in completion order), the first error
    tresults,     \* pool.map's result list, one slot per input frame
    tbar,         \* the shared progress counter (tqdm)
    tret          \* what readCamerasFromTransforms returned or raised

transformsVars == <<tcall, tpool, tresults, tbar, tret>>

VARIABLES
    ncams,        \* the cam_info list handed to getNerfppNorm (rewritten in place)
    napply,       \* the apply argument of the calls
    nrets         \* what the getNerfppNorm calls so far returned or raised

normVars == <<ncams, napply, nrets>>

VARIABLES
    disk,         \* the dataset directory a scene reader is pointed at
    loads         \* history: one entry per call of the scene reader, in order

sceneVars == <<disk, loads>>

vars == <<WARNED, stdout, camLog, lastCam, tcall, tpool, tresults, tbar, tret,
          ncams, napply, nrets, disk, loads>>

(***************************************************************************)
(* utils/camera_utils.py : loadCam                                         *)
(***************************************************************************)
\* The width above which resolution = -1 rescales (camera_utils.py:35).
AutoCapWidth == 1600

\* args.resolution in [1, 2, 4, 8] (camera_utils.py:31)
DownscaleFactors == {1, 2, 4, 8}

\* Python's round(a / b) for positive integers: to nearest, ties to even.
PyRound(a, b) ==
    LET q == a \div b
        r == a % b
    IN  IF 2 * r < b THEN q
        ELSE IF 2 * r > b THEN q + 1
        ELSE IF q % 2 = 0 THEN q ELSE q + 1

\* The (width, height) loadCam asks PILtoTorch for (camera_utils.py:31-48).
\* resolution_scale is an integer here, so scale = global_down * scale is
\* the exact quotient and int() is the floor of a positive number.
Resolution(orig_w, orig_h, resolution, resolution_scale) ==
    IF resolution \in DownscaleFactors
    THEN <<PyRound(orig_w, resolution_scale * resolution),
           PyRound(orig_h, resolution_scale * resolution)>>
    ELSE IF resolution = -1
         THEN IF orig_w > AutoCapWidth
              THEN <<AutoCapWidth \div resolution_scale,
                     (orig_h * AutoCapWidth) \div (orig_w * resolution_scale)>>
              ELSE <<orig_w \div resolution_scale, orig_h \div resolution_scale>>
         ELSE <<resolution \div resolution_scale,
                (orig_h * resolution) \div (orig_w * resolution_scale)>>

\* Whether this call takes the branch that prints the warning
\* (camera_utils.py:29-37): the image is decoded here, the resolution is the
\* auto-cap one and the decoded image is wider than the cap.
Oversized(on_the_fly, resolution, orig_w) ==
    /\ ~on_the_fly
    /\ resolution \notin DownscaleFactors
    /\ resolution = -1
    /\ orig_w > AutoCapWidth

\* The tensor PILtoTorch returns, as its shape <<channels, height, width>>.
PILtoTorch(channels, resolution) == <<channels, resolution[2], resolution[1]>>

\* gt_image (camera_utils.py:51): the first three channels, as a shape.
GtImage(tensor) ==
    <<IF tensor[1] < 3 THEN tensor[1] ELSE 3, tensor[2], tensor[3]>>

\* loaded_mask (camera_utils.py:52-55): None unless shape[1] == 4, and then
\* the slice [3:4, ...] of the channel axis: the 4th channel, or a tensor
\* with no channel when there are only three.
LoadedMask(tensor) ==
    IF tensor[2] = 4
    THEN IF tensor[1] >= 4 THEN "channel3" ELSE "empty"
    ELSE None

ImageWidths == {1600, 2000}
ImageHeights == {4, 1200}
ImageChannels == {3, 4}
Resolutions == {-1, 2, 800}
ResolutionScales == {1, 2}

\* The flag after a call that did (warn) or did not print: once the warning
\* is printed the flag is set, and nothing clears it (camera_utils.py:37-40).
WarnedAfter_NeverSet(warned, warn) == warned

WarnedAfter(warned, warn) == warned \/ warn

loadCam(on_the_fly, resolution, resolution_scale, orig_w, orig_h, channels) ==
    LET warn == Oversized(on_the_fly, resolution, orig_w) /\ ~WARNED
        res == Resolution(orig_w, orig_h, resolution, resolution_scale)
        tensor == PILtoTorch(channels, res)
    IN  /\ Len(camLog) < MaxCalls
        /\ WARNED' = WarnedAfter(WARNED, warn)
        /\ stdout' = IF warn THEN stdout + 1 ELSE stdout
        /\ camLog' = Append(camLog,
              [on_the_fly |-> on_the_fly, resolution |-> resolution,
               orig_w |-> orig_w, printed |-> warn])
        /\ lastCam' = IF on_the_fly
                      THEN [image |-> None, gt_alpha_mask |-> None,
                            resized_image_rgb |-> None,
                            image_width |-> orig_w, image_height |-> orig_h]
                      ELSE [image |-> GtImage(tensor),
                            gt_alpha_mask |-> LoadedMask(tensor),
                            resized_image_rgb |-> tensor,
                            image_width |-> orig_w, image_height |-> orig_h]

LoadCamInit ==
    /\ WARNED = FALSE
    /\ stdout = 0
    /\ camLog = <<>>
    /\ lastCam = None

LoadCamCall ==
    \E fly \in BOOLEAN, r \in Resolutions, rs \in ResolutionScales,
       w \in ImageWidths, h \in ImageHeights, c \in ImageChannels :
        loadCam(fly, r, rs, w, h, c)

(***************************************************************************)
(* scene/dataset_readers.py : readCamerasFromTransforms                    *)
(***************************************************************************)
Digits == {"0", "1", "2", "3", "4", "5", "6", "7", "8", "9"}
DigitVal == [c \in Digits |->
    CASE c = "0" -> 0 [] c = "1" -> 1 [] c = "2" -> 2 [] c = "3" -> 3
      [] c = "4" -> 4 [] c = "5" -> 5 [] c = "6" -> 6 [] c = "7" -> 7
      [] c = "8" -> 8 [] c = "9" -> 9]

\* Python's s[-4:]: the last four characters, or all of a shorter string.
LastFour(s) == IF Len(s) <= 4 THEN s ELSE SubSeq(s, Len(s) - 3, Len(s))

IsNumeral(s) == Len(s) > 0 /\ \A i \in 1..Len(s) : s[i] \in Digits

RECURSIVE PyInt(_)
\* Python's int(s) of a string of decimal digits.
PyInt(s) ==
    IF Len(s) = 0 THEN 0
    ELSE 10 * PyInt(SubSeq(s, 1, Len(s) - 1)) + DigitVal[s[Len(s)]]

\* The frame id frame_read_fn reads (dataset_readers.py:269):
\* int(file_name[-4:]), a ValueError when those characters are no numeral.
FrameId(name) == PyInt(LastFour(name))

DatasetType_PathFirst(call) ==
    IF "camera_angle_x" \in call.keys THEN "blender"
    ELSE IF call.technicolor_path THEN "technicolor"
    ELSE IF /\ "fl_x" \in call.keys /\ "fl_y" \in call.keys
            /\ "cx" \in call.keys /\ "cy" \in call.keys THEN "neu3d"
    ELSE "immersive"

\* Dialect detection (dataset_readers.py:243-261) from the top-level keys of
\* the document and from whether the path contains 'technicolor'.
DatasetType(call) ==
    IF "camera_angle_x" \in call.keys THEN "blender"
    ELSE IF /\ "fl_x" \in call.keys /\ "fl_y" \in call.keys
            /\ "cx" \in call.keys /\ "cy" \in call.keys THEN "neu3d"
    ELSE IF call.technicolor_path THEN "technicolor"
    ELSE "immersive"

\* time_duration as an exact rational, NoValue for Python's None.
TimeDuration(call) ==
    CASE DatasetType(call) = "blender" -> NoValue
      [] DatasetType(call) = "neu3d" -> Some(<<10, 1>>)
      [] DatasetType(call) = "technicolor" -> Some(<<10, 6>>)
      [] OTHER -> Some(<<10, 1>>)

Exc(type) == [kind |-> "exception", type |-> type]
Dropped == [kind |-> "None"]
IsExc(r) == r.kind = "exception"

\* The frame drop test of frame_read_fn (dataset_readers.py:276).
DropFrame_AtCutoff(fid, end_frame) == fid >= end_frame

DropFrame(fid, end_frame) == fid > end_frame

\* frame_read_fn (dataset_readers.py:265-377) on frame idx (0-based) of the
\* document: an exception, None (the frame is dropped) or a CameraInfo.  The
\* image of every frame is taken to exist, and the pose and optics fields of
\* the CameraInfo are left out.
frame_read_fn(call, idx, frame) ==
    IF ~IsNumeral(LastFour(frame.file_name)) THEN Exc("ValueError")
    ELSE
    LET fid == FrameId(frame.file_name)
        dur == TimeDuration(call)
        camera(t) == [kind |-> "CameraInfo", uid |-> idx,
                      image_name |-> frame.file_name, fid |-> t]
    IN  IF dur # NoValue
        THEN IF call.end_frame # Some(-1)
             THEN IF call.end_frame = NoValue THEN Exc("TypeError")
                  ELSE IF call.end_frame[1] = 0 THEN Exc("ZeroDivisionError")
                  ELSE IF DropFrame(fid, call.end_frame[1]) THEN Dropped
                  ELSE camera(RatDiv(frame.time, Rat(call.end_frame[1] * 10, 300)))
             ELSE camera(RatDiv(frame.time, dur[1]))
        ELSE camera(frame.time)

\* File names (the part after the last '/'), as strings of characters.
FileNames == { <<"0","0","0","1">>, <<"0","0","0","3">>,
               <<"1","0","0","0","1">>, <<"r","_","2">> }
\* frame['time'] in seconds
FrameTimes == { <<1, 30>> }
Frames == [file_name : FileNames, time : FrameTimes]
EndFrames == {NoValue, Some(-1), Some(0), Some(1)}
\* Top-level keys of a transforms document, next to "frames".
IntrinsicsKeys == {"fl_x", "fl_y", "cx", "cy"}
TopLevelKeys == { {}, {"camera_angle_x"}, IntrinsicsKeys, {"fl_x", "fl_y", "cx"},
                  {"camera_angle_x"} \cup IntrinsicsKeys }

RECURSIVE SeqsUpTo(_, _)
SeqsUpTo(S, n) ==
    IF n = 0 THEN {<<>>}
    ELSE LET shorter == SeqsUpTo(S, n - 1)
         IN  shorter \cup {Append(q, x) : q \in shorter, x \in S}

Pending == [kind |-> "pending"]

\* The call: the document is loaded, the dialect decided and pool.map is
\* about to hand out the frames (dataset_readers.py:238-264, 379-380).
TransformsInit ==
    /\ tcall \in [keys : TopLevelKeys, technicolor_path : BOOLEAN,
                  frames : SeqsUpTo(Frames, MaxFrames),
                  end_frame : EndFrames]
    /\ tpool = [next |-> 1, running |-> {}, finished |-> <<>>, error |-> NoValue,
                dataset_type |-> DatasetType(tcall),
                time_duration |-> TimeDuration(tcall)]
    /\ tresults = [i \in 1..Len(tcall.frames) |-> Pending]
    /\ tbar = 0
    /\ tret = [kind |-> "running"]

\* pool.map stores a task's result by the task's index in the input.
PoolStore_CompletionOrder(results, i, r) ==
    LET free == {k \in DOMAIN results : results[k] = Pending}
        slot == CHOOSE k \in free : \A m \in free : k <= m
    IN  [results EXCEPT ![slot] = r]

PoolStore(results, i, r) == [results EXCEPT ![i] = r]

\* A free worker takes the next task off the pool's queue.
WorkerTake ==
    /\ tret.kind = "running"
    /\ tpool.next <= Len(tcall.frames)
    /\ Cardinality(tpool.running) < PoolSize
    /\ tpool' = [tpool EXCEPT !.next = @ + 1, !.running = @ \cup {tpool.next}]
    /\ UNCHANGED <<tcall, tresults, tbar, tret>>

\* A worker finishes frame_read_fn on its task; workers finish in any order.
\* tbar.update(1) is reached only by a frame that is neither dropped nor
\* failed (dataset_readers.py:323).  The first failure is the one map raises.
WorkerFinish(i) ==
    LET r == frame_read_fn(tcall, i - 1, tcall.frames[i])
    IN  /\ tret.kind = "running"
        /\ i \in tpool.running
        /\ tpool' = [tpool EXCEPT !.running = @ \ {i},
                         !.finished = Append(@, i),
                         !.error = IF IsExc(r) /\ @ = NoValue THEN Some(r.type) ELSE @]
        /\ tresults' = IF IsExc(r) THEN tresults ELSE PoolStore(tresults, i, r)
        /\ tbar' = IF r.kind = "CameraInfo" THEN tbar + 1 ELSE tbar
        /\ UNCHANGED <<tcall, tret>>

\* [cam_info for cam_info in cam_infos if cam_info is not None]
\* (dataset_readers.py:384)
FilterNone(results) ==
    LET n == IF DOMAIN results = {} THEN 0 ELSE Len(results)
        F[k \in 0..n] ==
            IF k = 0 THEN <<>>
            ELSE IF results[k].kind = "None" THEN F[k - 1]
            ELSE Append(F[k - 1], results[k])
    IN  F[n]

\* pool.map returns once every task is done, or raises the first failure;
\* readCamerasFromTransforms then filters and returns
\* (dataset_readers.py:380-388).
MapReturn ==
    /\ tret.kind = "running"
    /\ tpool.next > Len(tcall.frames)
    /\ tpool.running = {}
    /\ tret' = IF tpool.error # NoValue
               THEN Exc(tpool.error[1])
               ELSE [kind |-> "returned", cam_infos |-> FilterNone(tresults)]
    /\ UNCHANGED <<tcall, tpool, tresults, tbar>>

(***************************************************************************)
(* scene/dataset_readers.py : getNerfppNorm                                *)
(*                                                                         *)
(* A 3-vector of reals is kept exactly as [v, q], standing for v/sqrt(q)    *)
(* with v an integer vector and q a natural number: camera lists start     *)
(* with q = 1, and the mean, the translation and the division by the       *)
(* radius stay within this form.  q = 0 is what a division by a zero       *)
(* radius leaves: numpy's 0/0, a vector of NaN.                            *)
(***************************************************************************)
VAdd(a, b) == <<a[1] + b[1], a[2] + b[2], a[3] + b[3]>>
VScale(k, a) == <<k * a[1], k * a[2], k * a[3]>>
VNeg(a) == VScale(-1, a)
Norm2(a) == a[1] * a[1] + a[2] * a[2] + a[3] * a[3]
MatVec(M, a) ==
    <<M[1][1] * a[1] + M[1][2] * a[2] + M[1][3] * a[3],
      M[2][1] * a[1] + M[2][2] * a[2] + M[2][3] * a[3],
      M[3][1] * a[1] + M[3][2] * a[2] + M[3][3] * a[3]>>
Transpose(M) ==
    <<<<M[1][1], M[2][1], M[3][1]>>,
      <<M[1][2], M[2][2], M[3][2]>>,
      <<M[1][3], M[2][3], M[3][3]>>>>

IsNaN(p) == p.q = 0

\* The same real vector in lowest terms: v/g over sqrt(q/g^2) for the
\* largest g that divides every component of v and whose square divides q.
Canon(p) ==
    IF p.q = 0 THEN [v |-> <<0, 0, 0>>, q |-> 0]
    ELSE IF p.v = <<0, 0, 0>> THEN [v |-> p.v, q |-> 1]
    ELSE LET m == Abs(p.v[1]) + Abs(p.v[2]) + Abs(p.v[3])
             ok(g) == /\ p.v[1] % g = 0 /\ p.v[2] % g = 0 /\ p.v[3] % g = 0
                      /\ p.q % (g * g) = 0
             g == CHOOSE g \in 1..m : ok(g) /\ \A h \in 1..m : ok(h) => h <= g
         IN  [v |-> <<p.v[1] \div g, p.v[2] \div g, p.v[3] \div g>>,
              q |-> p.q \div (g * g)]

\* The camera center: the translation column of inv(getWorld2View2(R, T)).
\* R is stored as the transpose of the world-to-camera rotation, so the
\* center is -R.T (dataset_readers.py:75-79).
CamCenter(cam) == [v |-> VNeg(MatVec(cam.R, cam.T.v)), q |-> cam.T.q]

\* The translation of the world-to-camera pose whose center is p.
PoseT(R, p) == [v |-> VNeg(MatVec(Transpose(R), p.v)), q |-> p.q]

RECURSIVE VSum(_)
VSum(vs) == IF Len(vs) = 0 THEN <<0, 0, 0>>
            ELSE VAdd(vs[1], VSum(Tail(vs)))

MaxOf_Any(S) == CHOOSE x \in S : TRUE

RECURSIVE MaxOf(_)
\* np.max (dataset_readers.py:69)
MaxOf(S) == LET x == CHOOSE x \in S : TRUE
            IN  IF S = {x} THEN x
                ELSE LET m == MaxOf(S \ {x}) IN IF x > m THEN x ELSE m

\* n times (center i - mean of the centers), for centers with a common q:
\* the centers after `+= translate`, over n sqrt(q).
Centered(centers) ==
    LET n == Len(centers)
        sum == VSum([i \in 1..n |-> centers[i].v])
    IN  [i \in 1..n |-> VAdd(VScale(n, centers[i].v), VNeg(sum))]

DivideByRadius_Skipped(w, m2, q) == [v |-> w, q |-> q]

\* `/= radius` (dataset_readers.py:86): the centered positions w_i over the
\* radius max|w|.  numpy divides by a zero radius without raising: 0/0 is NaN.
DivideByRadius(w, m2, q) == [v |-> w, q |-> m2]

\* getNerfppNorm (dataset_readers.py:63-97) on a list whose poses share one
\* q.  The result is <<cam_info after the call, returned dict or exception>>.
\* np.hstack raises ValueError on an empty list.  A radius is kept as its
\* square, the rational r2[1]/r2[2].
getNerfppNorm(cams, apply) ==
    IF Len(cams) = 0 THEN <<cams, Exc("ValueError")>>
    ELSE
    LET n == Len(cams)
        centers == [i \in 1..n |-> CamCenter(cams[i])]
        q == centers[1].q
        w == Centered(centers)
        m2 == MaxOf({Norm2(w[i]) : i \in 1..n})
        center == [v |-> VSum([i \in 1..n |-> centers[i].v]), q |-> n * n * q]
        translate == [v |-> VNeg(center.v), q |-> center.q]
        radius2 == <<m2, n * n * q>>
    IN  IF apply
        THEN <<[i \in 1..n |->
                  [cams[i] EXCEPT !.T = PoseT(cams[i].R, DivideByRadius(w[i], m2, n * n * q))]],
               [kind |-> "dict", translate |-> [v |-> <<0, 0, 0>>, q |-> 1],
                radius2 |-> <<1, 1>>,
                apply_translate |-> Some(translate), apply_radius2 |-> Some(radius2)]>>
        ELSE <<cams,
               [kind |-> "dict", translate |-> translate, radius2 |-> radius2,
                apply_translate |-> NoValue, apply_radius2 |-> NoValue]>>

Identity3 == <<<<1, 0, 0>>, <<0, 1, 0>>, <<0, 0, 1>>>>
RotZ90 == <<<<0, -1, 0>>, <<1, 0, 0>>, <<0, 0, 1>>>>
Rotations == {Identity3, RotZ90}
Translations == {<<0, 0, 0>>, <<1, 0, 0>>, <<0, 2, 0>>, <<1, 1, 1>>}
Poses == [R : Rotations, T : [v : Translations, q : {1}]]

NormInit ==
    /\ ncams \in SeqsUpTo(Poses, MaxCams)
    /\ napply \in BOOLEAN
    /\ nrets = <<>>

\* One call of getNerfppNorm(cam_info, apply) on the list as it stands.  The
\* caller makes no further call after an exception or on poses that are NaN.
NormCall ==
    LET r == getNerfppNorm(ncams, napply)
    IN  /\ Len(nrets) < MaxNormCalls
        /\ \A i \in 1..Len(nrets) : ~IsExc(nrets[i])
        /\ \A i \in 1..Len(ncams) : ~IsNaN(ncams[i].T)
        /\ ncams' = r[1]
        /\ nrets' = Append(nrets, r[2])
        /\ UNCHANGED napply

(***************************************************************************)
(* scene/dataset_readers.py : CameraInfo, readColmapCameras,               *)
(* storePly / fetchPly, readColmapStaticSceneInfo                          *)
(***************************************************************************)
\* The fields of the CameraInfo named tuple (dataset_readers.py:41-54).
CameraInfoFields ==
    {"uid", "R", "T", "FovY", "FovX", "image", "image_path", "image_name",
     "width", "height", "masks", "mask_path", "fid"}

\* CameraInfo(**kw): a NamedTuple without defaults takes exactly its fields
\* as keywords, and raises TypeError on any other keyword or a missing one.
CameraInfo(kw) ==
    IF DOMAIN kw = CameraInfoFields
    THEN [kind |-> "CameraInfo", fields |-> kw]
    ELSE Exc("TypeError")

\* Characters in Python's (code point) order.
CharCode == [c \in Digits \cup {"_", "a", "r"} |->
    IF c \in Digits THEN 48 + DigitVal[c]
    ELSE IF c = "_" THEN 95 ELSE IF c = "a" THEN 97 ELSE 114]

RECURSIVE StrLess(_, _)
\* s < t for Python strings.
StrLess(s, t) ==
    IF Len(t) = 0 THEN FALSE
    ELSE IF Len(s) = 0 THEN TRUE
    ELSE IF s[1] # t[1] THEN CharCode[s[1]] < CharCode[t[1]]
    ELSE StrLess(Tail(s), Tail(t))

RECURSIVE InsertByName(_, _)
InsertByName(sorted, c) ==
    IF Len(sorted) = 0 THEN <<c>>
    ELSE IF StrLess(c.fields.image_name, sorted[1].fields.image_name)
         THEN <<c>> \o sorted
         ELSE <<sorted[1]>> \o InsertByName(Tail(sorted), c)

RECURSIVE SortedByName(_)
\* sorted(cam_infos, key = lambda x : x.image_name): ascending and stable
\* (dataset_readers.py:205).
SortedByName(cams) ==
    IF Len(cams) = 0 THEN <<>>
    ELSE InsertByName(SortedByName(SubSeq(cams, 1, Len(cams) - 1)), cams[Len(cams)])

\* [c for idx, c in enumerate(cams) if keep(idx)], idx 0-based.
RECURSIVE SelectIdx(_, _, _)
SelectIdx(cams, k, test) ==
    IF Len(cams) = 0 THEN <<>>
    ELSE LET rest == SelectIdx(SubSeq(cams, 1, Len(cams) - 1), k, test)
             idx == Len(cams) - 1
         IN  IF (idx % k = 0) = test THEN Append(rest, cams[Len(cams)]) ELSE rest

\* The train/test split of the COLMAP reader (dataset_readers.py:207-212).
TrainCams(cams, eval, llffhold) ==
    IF eval THEN SelectIdx(cams, llffhold, FALSE) ELSE cams
TestCams(cams, eval, llffhold) ==
    IF eval THEN SelectIdx(cams, llffhold, TRUE) ELSE <<>>

\* The camera models readColmapCameras accepts (dataset_readers.py:126-136).
SupportedModels == {"SIMPLE_PINHOLE", "PINHOLE", "OPENCV", "SIMPLE_RADIAL"}

\* fid of a COLMAP camera (dataset_readers.py:153-157): int(image_name) over
\* num_frames - 1, and 0.0 when either step raises.
ColmapFid(image_name, num_frames) ==
    IF IsNumeral(image_name) /\ num_frames # 1
    THEN Rat(PyInt(image_name), num_frames - 1)
    ELSE <<0, 1>>

\* One iteration of readColmapCameras (dataset_readers.py:111-161) for the
\* idx-th image (0-based): an exception or the CameraInfo.  The pose of the
\* idx-th image is the identity rotation at center (idx, 0, 0).
ColmapCamera(recon, idx, num_frames) ==
    LET name == recon.images[idx + 1]
    IN  IF recon.model \notin SupportedModels THEN Exc("AssertionError")
        ELSE IF recon.missing_image = idx + 1 THEN Exc("AttributeError")
        ELSE CameraInfo(
               [uid |-> 1, R |-> Identity3,
                T |-> [v |-> <<-idx, 0, 0>>, q |-> 1],
                FovY |-> [extent |-> 600, focal |-> 1000],
                FovX |-> [extent |-> 800, focal |-> 1000],
                image |-> "Image", image_path |-> name, image_name |-> name,
                width |-> 800, height |-> 600, masks |-> None,
                fid |-> ColmapFid(name, num_frames),
                objects |-> None, mask_path |-> None])

RECURSIVE ColmapCameras(_, _)
\* readColmapCameras (dataset_readers.py:108-163) over the first k images:
\* the first exception raised, or the list of CameraInfo.
ColmapCameras(recon, k) ==
    IF k = 0 THEN [kind |-> "list", cams |-> <<>>]
    ELSE LET before == ColmapCameras(recon, k - 1)
         IN  IF IsExc(before) THEN before
             ELSE LET c == ColmapCamera(recon, k - 1, Len(recon.images))
                  IN  IF IsExc(c) THEN c
                      ELSE [kind |-> "list", cams |-> Append(before.cams, c)]

readColmapCameras(recon) == ColmapCameras(recon, Len(recon.images))

\* The calibration a reader with the bare try/except has in hand
\* (dataset_readers.py:191-200): the binary files, else the text files, else
\* the text reader's exception.
CalibrationWithFallback(recon) ==
    IF recon.bin = "ok" THEN "bin"
    ELSE IF recon.txt = "ok" THEN "txt" ELSE "raise"

\* storePly (dataset_readers.py:173-188): positions as float32, zero normals,
\* colors as unsigned bytes.
storePly(xyz, rgb) ==
    [n |-> xyz.n, xyz |-> [xyz EXCEPT !.dtype = "f4"],
     rgb |-> [rgb EXCEPT !.dtype = "u1"], readable |-> TRUE]

\* fetchPly (dataset_readers.py:165-171) under the callers' try/except:
\* the cloud of the file, colors over 255, or None when the read raises.
fetchPly(file) ==
    IF file = NoValue \/ ~file[1].readable THEN [kind |-> "None"]
    ELSE [kind |-> "BasicPointCloud", n |-> file[1].n, points |-> file[1].xyz,
          colors |-> [file[1].rgb EXCEPT !.dtype = "u1/255"]]

\* The poses getNerfppNorm reads from a list of CameraInfo, and the list
\* with the poses it wrote back (cam._replace(R=..., T=...)).
PosesOf(cams) ==
    [i \in 1..Len(cams) |-> [R |-> cams[i].fields.R, T |-> cams[i].fields.T]]
WithPoses(cams, poses) ==
    [i \in 1..Len(cams) |->
        [cams[i] EXCEPT !.fields.R = poses[i].R, !.fields.T = poses[i].T]]

\* readColmapStaticSceneInfo (dataset_readers.py:190-236) on the directory
\* d: the encodings it tried to read, what it returned or raised, and the
\* cache file it leaves.
ColmapStaticLoad(d, eval, llffhold) ==
    LET calib == CalibrationWithFallback(d)
        attempts == IF d.bin = "ok" THEN <<"bin">> ELSE <<"bin", "txt">>
        raised(e) == [attempts |-> attempts, outcome |-> e, ply |-> d.ply]
        unsorted == readColmapCameras(d)
    IN  IF calib = "raise" THEN raised(Exc("CalibrationError"))
        ELSE IF IsExc(unsorted) THEN raised(unsorted)
        ELSE
        LET cam_infos == SortedByName(unsorted.cams)
            train == TrainCams(cam_infos, eval, llffhold)
            test == TestCams(cam_infos, eval, llffhold)
            norm == getNerfppNorm(PosesOf(train), FALSE)
            ply == IF d.ply = NoValue
                   THEN Some(storePly(d.points.xyz, d.points.rgb))
                   ELSE d.ply
        IN  IF IsExc(norm[2]) THEN raised(norm[2])
            ELSE [attempts |-> attempts, ply |-> ply,
                  outcome |-> [kind |-> "SceneInfo", point_cloud |-> fetchPly(ply),
                               train_cameras |-> train, test_cameras |-> test,
                               nerf_normalization |-> norm[2]]]

\* sceneLoadTypeCallbacks["Colmap"](path, images, eval, llffhold)
readColmapStaticSceneInfo(eval, llffhold) ==
    LET r == ColmapStaticLoad(disk, eval, llffhold)
    IN  /\ disk.family = "colmap"
        /\ Len(loads) < MaxLoads
        /\ disk' = [disk EXCEPT !.ply = r.ply]
        /\ loads' = Append(loads,
              [reader |-> "Colmap", eval |-> eval, llffhold |-> llffhold,
               ply_before |-> disk.ply, ply_after |-> r.ply,
               attempts |-> r.attempts, outcome |-> r.outcome])

\* Image names (file stems) of a reconstruction, as strings of characters.
ImageNames == { <<"0">>, <<"1">>, <<"1", "0">>, <<"a">> }
CameraModels == {"PINHOLE", "SIMPLE_PINHOLE", "FISHEYE"}
Encodings == {"ok", "corrupt"}
LlffHolds == {2, 8}

\* Sequences of distinct elements of S, of length at most n.
DistinctSeqs(S, n) ==
    {q \in SeqsUpTo(S, n) : \A i, j \in 1..Len(q) : i # j => q[i] # q[j]}

\* The point list of the reconstruction (points3D.bin).
ColmapPoints ==
    [xyz |-> [n |-> 2, draw |-> 0, dtype |-> "f8"],
     rgb |-> [n |-> 2, draw |-> 0, dtype |-> "u1"]]

\* A COLMAP directory: sparse/0 in both encodings (each readable or not),
\* the images, at most one of them without its file, and no cache yet or a
\* cache written by an earlier run.
ColmapInit ==
    /\ \E images \in DistinctSeqs(ImageNames, MaxImages),
          model \in CameraModels, bin \in Encodings, txt \in Encodings,
          cached \in BOOLEAN :
        \E missing \in 0..Len(images) :
            disk = [family |-> "colmap", bin |-> bin, txt |-> txt,
                    images |-> images, model |-> model,
                    missing_image |-> missing, points |-> ColmapPoints,
                    ply |-> IF cached
                            THEN Some(storePly(ColmapPoints.xyz, ColmapPoints.rgb))
                            ELSE NoValue]
    /\ loads = <<>>

ColmapCall ==
    \E eval \in BOOLEAN, llffhold \in LlffHolds :
        readColmapStaticSceneInfo(eval, llffhold)

(***************************************************************************)
(* scene/dataset_readers.py : readNerfiesCameras,                          *)
(* readNerfiesColmapCameras, translate_cam_info, readNerfiesInfo           *)
(***************************************************************************)
IdChars == <<"0", "1", "2", "3", "4", "5", "6", "7", "8", "9">>
\* The i-th image id (0-based) of a manifest: the one-character name of i.
IdName(i) == <<IdChars[i + 1]>>
IdIndex(name) == DigitVal[name[1]]

\* Python's s[start::4]
RECURSIVE EveryFourth(_, _)
EveryFourth(ids, start) ==
    IF start >= Len(ids) THEN <<>>
    ELSE <<ids[start + 1]>> \o EveryFourth(ids, start + 4)

\* train_ids / val_ids of a vrig or NeRF-DS manifest with K ids: the first
\* half (rounded up) and the rest.
ManifestTrain(ids) == SubSeq(ids, 1, (Len(ids) + 1) \div 2)
ManifestVal(ids) == SubSeq(ids, (Len(ids) + 1) \div 2 + 1, Len(ids))

\* train_img and val_img of readNerfiesCameras (dataset_readers.py:437-462).
PlainTrainImg(d) ==
    IF d.name \in {"vrig", "NeRF"} THEN ManifestTrain(d.ids)
    ELSE EveryFourth(d.ids, 0)
PlainValImg(d) ==
    IF d.name \in {"vrig", "NeRF"} THEN ManifestVal(d.ids)
    ELSE EveryFourth(d.ids, 2)

\* train_img and all_img of readNerfiesColmapCameras
\* (dataset_readers.py:530-553): the HyperNeRF branch selects no val images.
ColmapTrainImg(d) == PlainTrainImg(d)
ColmapAllImg(d) ==
    IF d.name \in {"vrig", "NeRF"} THEN ManifestTrain(d.ids) \o ManifestVal(d.ids)
    ELSE IF d.name = "interp" THEN EveryFourth(d.ids, 0) \o EveryFourth(d.ids, 2)
    ELSE EveryFourth(d.ids, 0)

\* meta_json[i]['time_id']
TimeId(d, name) ==
    CASE d.times = "index" -> IdIndex(name)
      [] d.times = "offset" -> IdIndex(name) + 2
      [] OTHER -> 0

MaxTime(d, all_img) == MaxOf({TimeId(d, all_img[i]) : i \in 1..Len(all_img)})

\* readNerfiesCameras (dataset_readers.py:426-522): an exception, or
\* cam_infos and train_num.  max() of an empty list raises ValueError, the
\* division by a max_time of 0 ZeroDivisionError.  The image and camera
\* files are taken to exist; image i sits at center (i, 0, 0).
readNerfiesCameras(d) ==
    LET train_img == PlainTrainImg(d)
        all_img == train_img \o PlainValImg(d)
    IN  IF Len(all_img) = 0 THEN Exc("ValueError")
        ELSE IF MaxTime(d, all_img) = 0 THEN Exc("ZeroDivisionError")
        ELSE [kind |-> "list", train_num |-> Len(train_img),
              cams |-> [idx \in 1..Len(all_img) |->
                  CameraInfo(
                    [uid |-> idx - 1, R |-> Identity3,
                     T |-> [v |-> <<-IdIndex(all_img[idx]), 0, 0>>, q |-> 1],
                     FovY |-> [extent |-> 600, focal |-> 1000],
                     FovX |-> [extent |-> 800, focal |-> 1000],
                     image |-> "Image", image_path |-> all_img[idx],
                     image_name |-> all_img[idx], width |-> 800, height |-> 600,
                     fid |-> Rat(TimeId(d, all_img[idx]), MaxTime(d, all_img)),
                     masks |-> None, mask_path |-> all_img[idx]])]]

\* cam_infos[-1]._replace(fid=all_time[idx]) (dataset_readers.py:574):
\* _replace returns a new tuple, which the statement drops; the list keeps
\* the record readColmapCameras built.
ReplaceFidDiscarded(cam, fid) == cam

\* readNerfiesColmapCameras (dataset_readers.py:524-575): the encodings it
\* tried to read, and an exception or cam_infos and train_num.  The binary
\* calibration is read with no fallback.
readNerfiesColmapCameras(d) ==
    LET train_img == ColmapTrainImg(d)
        all_img == ColmapAllImg(d)
        unsorted == readColmapCameras(d)
        pos(name) == CHOOSE k \in 1..Len(unsorted.cams) :
                        unsorted.cams[k].fields.image_name = name
    IN  IF Len(all_img) = 0
        THEN [attempts |-> <<>>, result |-> Exc("ValueError")]
        ELSE IF MaxTime(d, all_img) = 0
        THEN [attempts |-> <<>>, result |-> Exc("ZeroDivisionError")]
        ELSE IF d.bin # "ok"
        THEN [attempts |-> <<"bin">>, result |-> Exc("CalibrationError")]
        ELSE IF IsExc(unsorted)
        THEN [attempts |-> <<"bin">>, result |-> unsorted]
        ELSE [attempts |-> <<"bin">>,
              result |-> [kind |-> "list", train_num |-> Len(train_img),
                  cams |-> [idx \in 1..Len(all_img) |->
                      ReplaceFidDiscarded(
                          unsorted.cams[pos(all_img[idx])],
                          Rat(TimeId(d, all_img[idx]), MaxTime(d, all_img)))]]]

\* translate_cam_info (dataset_readers.py:99-106): every camera center moved
\* by `translate`.  The moved pose is kept as the pose and the translation.
translate_cam_info(cams, translate) ==
    [i \in 1..Len(cams) |->
        [cams[i] EXCEPT !.fields.T =
            [v |-> @.v, q |-> @.q, moved_by |-> translate]]]

\* cam_infos[:train_num] and cam_infos[train_num:] under eval, else every
\* camera is a train camera (dataset_readers.py:587-592).
NerfiesTrain(cams, train_num, eval) ==
    IF eval THEN SubSeq(cams, 1, train_num) ELSE cams
NerfiesTest(cams, train_num, eval) ==
    IF eval THEN SubSeq(cams, train_num + 1, Len(cams)) ELSE <<>>

\* The COLMAP-layout branch of readNerfiesInfo (dataset_readers.py:580-582,
\* 587-628, 642-652).  The normalized and recentered point arrays are kept
\* as the array and what was done to it.
NerfiesColmapLoad(d, eval) ==
    LET r == readNerfiesColmapCameras(d)
        raised(e) == [attempts |-> r.attempts, outcome |-> e,
                      ply |-> d.ply, adj |-> d.adj]
    IN  IF IsExc(r.result) THEN raised(r.result)
        ELSE
        LET train0 == NerfiesTrain(r.result.cams, r.result.train_num, eval)
            test0 == NerfiesTest(r.result.cams, r.result.train_num, eval)
            norm == getNerfppNorm(PosesOf(train0), TRUE)
        IN  IF IsExc(norm[2]) THEN raised(norm[2])
            ELSE
            LET train1 == WithPoses(train0, norm[1])
                xyz1 == [n |-> d.points.xyz.n, draw |-> d.points.xyz.draw,
                         dtype |-> d.points.xyz.dtype,
                         plus |-> norm[2].apply_translate[1],
                         over2 |-> norm[2].apply_radius2[1], centered |-> FALSE]
                pcl_center == [mean_of |-> xyz1]
                minus_center == [minus |-> pcl_center]
                xyz2 == [xyz1 EXCEPT !.centered = TRUE]
                scene(train, test, ply, adj) ==
                    [attempts |-> r.attempts, ply |-> ply, adj |-> adj,
                     outcome |-> [kind |-> "SceneInfo",
                                  point_cloud |-> fetchPly(ply),
                                  train_cameras |-> train, test_cameras |-> test,
                                  nerf_normalization |-> norm[2]]]
            IN  IF d.ply = NoValue
                THEN scene(translate_cam_info(train1, minus_center),
                           translate_cam_info(test0, minus_center),
                           Some(storePly(xyz2, d.points.rgb)),
                           Some(minus_center))
                ELSE IF d.adj = NoValue THEN raised(Exc("FileNotFoundError"))
                ELSE scene(translate_cam_info(train1, d.adj[1]),
                           translate_cam_info(test0, d.adj[1]),
                           d.ply, d.adj)

\* The plain-layout branch of readNerfiesInfo (dataset_readers.py:583-595,
\* 629-652); shs is the draw of np.random.random for the colors.
NerfiesPlainLoad(d, eval, shs) ==
    LET r == readNerfiesCameras(d)
        raised(e) == [attempts |-> <<>>, outcome |-> e, ply |-> d.ply, adj |-> d.adj]
    IN  IF IsExc(r) THEN raised(r)
        ELSE
        LET train == NerfiesTrain(r.cams, r.train_num, eval)
            test == NerfiesTest(r.cams, r.train_num, eval)
            norm == getNerfppNorm(PosesOf(train), FALSE)
            xyz == [n |-> d.points.xyz.n, draw |-> d.points.xyz.draw,
                    dtype |-> "f8", scene_frame |-> TRUE]
            rgb == [n |-> d.points.xyz.n, draw |-> shs, dtype |-> "f8"]
            ply == IF d.ply = NoValue THEN Some(storePly(xyz, rgb)) ELSE d.ply
        IN  IF IsExc(norm[2]) THEN raised(norm[2])
            ELSE [attempts |-> <<>>, ply |-> ply, adj |-> d.adj,
                  outcome |-> [kind |-> "SceneInfo", point_cloud |-> fetchPly(ply),
                               train_cameras |-> train, test_cameras |-> test,
                               nerf_normalization |-> norm[2]]]

\* What a call of readNerfiesInfo leaves behind: the files on disk, and the
\* record of the call.
NerfiesDone(eval, r) ==
    /\ disk' = [disk EXCEPT !.ply = r.ply, !.adj = r.adj]
    /\ loads' = Append(loads,
          [reader |-> "nerfies", eval |-> eval,
           ply_before |-> disk.ply, ply_after |-> r.ply,
           adj_before |-> disk.adj, adj_after |-> r.adj,
           attempts |-> r.attempts, outcome |-> r.outcome])

\* sceneLoadTypeCallbacks["nerfies"](path, eval)
readNerfiesInfo(eval, shs) ==
    /\ disk.family = "nerfies"
    /\ Len(loads) < MaxLoads
    /\ NerfiesDone(eval, IF disk.colmap THEN NerfiesColmapLoad(disk, eval)
                         ELSE NerfiesPlainLoad(disk, eval, shs))

DatasetNames == {"vrig", "NeRF", "interp", "misc"}
TimePatterns == {"index", "offset", "zero"}
\* Draws of np.random.random
RandomDraws == {1, 2}

Reverse(q) == [i \in 1..Len(q) |-> q[Len(q) + 1 - i]]

\* A Nerfies / HyperNeRF capture: a manifest of K image ids with their time
\* ids, and either a colmap/ directory that reconstructs every image (in
\* manifest order or reversed) or the plain camera files.  No cache yet.
NerfiesInit ==
    /\ \E K \in 0..MaxIds, name \in DatasetNames, times \in TimePatterns,
          colmap \in BOOLEAN :
        LET ids == [i \in 1..K |-> IdName(i - 1)]
        IN  IF colmap
            THEN \E bin \in Encodings, txt \in Encodings, model \in CameraModels,
                    reversed \in BOOLEAN, missing \in {0, 1} :
                    disk = [family |-> "nerfies", colmap |-> TRUE, name |-> name,
                            ids |-> ids, times |-> times, bin |-> bin, txt |-> txt,
                            images |-> IF reversed THEN Reverse(ids) ELSE ids,
                            model |-> model,
                            missing_image |-> IF K = 0 THEN 0 ELSE missing,
                            points |-> ColmapPoints, ply |-> NoValue, adj |-> NoValue]
            ELSE    disk = [family |-> "nerfies", colmap |-> FALSE, name |-> name,
                            ids |-> ids, times |-> times, bin |-> "corrupt",
                            txt |-> "corrupt", images |-> <<>>, model |-> "PINHOLE",
                            missing_image |-> 0,
                            points |-> ColmapPoints, ply |-> NoValue, adj |-> NoValue]
    /\ loads = <<>>

NerfiesCall ==
    \E eval \in BOOLEAN, shs \in RandomDraws : readNerfiesInfo(eval, shs)

(***************************************************************************)
(* scene/dataset_readers.py : readMultiViewInfo                            *)
(***************************************************************************)
\* num_pts (dataset_readers.py:405)
NumPts == 100000

\* What readCamerasFromTransforms can do on a document
\* (dataset_readers.py:238-388): pool.map raises the failure of the frame
\* that failed first, whichever frame that is; with no failure the call
\* returns the records that are not None, in input order.
TransformsOutcomes(call) ==
    LET n == Len(call.frames)
        results == [i \in 1..n |-> frame_read_fn(call, i - 1, call.frames[i])]
        failed == {i \in 1..n : IsExc(results[i])}
    IN  IF failed # {} THEN {results[i] : i \in failed}
        ELSE {[kind |-> "returned", cam_infos |-> FilterNone(results)]}

\* The call readMultiViewInfo makes for one of the two documents of the
\* dataset (dataset_readers.py:392, 394).
TransformsCall(d, frames) ==
    [keys |-> IF d.camera_angle_x THEN {"camera_angle_x"} ELSE IntrinsicsKeys,
     technicolor_path |-> FALSE, frames |-> frames, end_frame |-> d.end_frame]

\* The pose frame_read_fn takes from transform_matrix: frame idx of a
\* document is the identity rotation at center (idx, 0, 0).
TransformPose(cam) == [R |-> Identity3, T |-> [v |-> <<-cam.uid, 0, 0>>, q |-> 1]]

NeedsGeneration_Always(ply) == TRUE

\* not os.path.exists(ply_path) (dataset_readers.py:403)
NeedsGeneration(ply) == ply = NoValue

\* readMultiViewInfo (dataset_readers.py:390-424) once the two documents
\* are read: what it returned or raised, the cache file it leaves and the
\* number of points it generated.  xyz_draw and shs_draw are the draws of
\* np.random.random for the positions and the colors.
MultiViewLoad(d, eval, train_r, test_r, xyz_draw, shs_draw) ==
    LET raised(e) == [outcome |-> e, ply |-> d.ply, num_pts |-> NoValue]
    IN  IF IsExc(train_r) THEN raised(train_r)
        ELSE IF IsExc(test_r) THEN raised(test_r)
        ELSE
        LET train == IF eval THEN train_r.cam_infos
                     ELSE train_r.cam_infos \o test_r.cam_infos
            test == IF eval THEN test_r.cam_infos ELSE <<>>
            norm == getNerfppNorm([i \in 1..Len(train) |-> TransformPose(train[i])],
                                  FALSE)
            xyz == [n |-> NumPts, draw |-> xyz_draw, dtype |-> "f8"]
            rgb == [n |-> NumPts, draw |-> shs_draw, dtype |-> "f8"]
            generate == NeedsGeneration(d.ply)
            ply == IF generate THEN Some(storePly(xyz, rgb)) ELSE d.ply
        IN  IF IsExc(norm[2]) THEN raised(norm[2])
            ELSE [ply |-> ply,
                  num_pts |-> IF generate THEN Some(NumPts) ELSE NoValue,
                  outcome |-> [kind |-> "SceneInfo", point_cloud |-> fetchPly(ply),
                               train_cameras |-> train, test_cameras |-> test,
                               nerf_normalization |-> norm[2]]]

\* What a call of readMultiViewInfo leaves behind: the cache file, and the
\* record of the call.
MultiViewDone(eval, r) ==
    /\ disk' = [disk EXCEPT !.ply = r.ply]
    /\ loads' = Append(loads,
          [reader |-> "Blender", eval |-> eval,
           ply_before |-> disk.ply, ply_after |-> r.ply,
           num_pts |-> r.num_pts, outcome |-> r.outcome])

\* sceneLoadTypeCallbacks["Blender"](path, white_background, eval, ...,
\* end_frame)
readMultiViewInfo(eval, xyz_draw, shs_draw) ==
    /\ disk.family = "multiview"
    /\ Len(loads) < MaxLoads
    /\ \E train_r \in TransformsOutcomes(TransformsCall(disk, disk.train)),
          test_r \in TransformsOutcomes(TransformsCall(disk, disk.test)) :
        MultiViewDone(eval,
            MultiViewLoad(disk, eval, train_r, test_r, xyz_draw, shs_draw))

MultiViewFileNames == { <<"0","0","0","1">>, <<"0","0","0","3">> }
MultiViewFrames == [file_name : MultiViewFileNames, time : FrameTimes]

\* A point-cloud file that is no PLY file.
UnreadablePly ==
    [n |-> 0, xyz |-> [n |-> 0, draw |-> 0, dtype |-> "f4"],
     rgb |-> [n |-> 0, draw |-> 0, dtype |-> "u1"], readable |-> FALSE]

\* A multi-view dataset: the train and the test document, in the blender or
\* the neu3d dialect, and no point-cloud file, one left by another tool or
\* an unreadable one.  end_frame is what the caller passes on every load.
MultiViewInit ==
    /\ \E blender \in BOOLEAN,
          train \in SeqsUpTo(MultiViewFrames, MaxDocFrames),
          test \in SeqsUpTo(MultiViewFrames, MaxDocFrames),
          end_frame \in EndFrames,
          ply \in {NoValue, Some(storePly(ColmapPoints.xyz, ColmapPoints.rgb)),
                   Some(UnreadablePly)} :
        disk = [family |-> "multiview", camera_angle_x |-> blender,
                train |-> train, test |-> test, end_frame |-> end_frame,
                ply |-> ply]
    /\ loads = <<>>

\* np.random.random is called only on the generating path
\* (dataset_readers.py:409-410); 0 stands for no draw.
DrawsFor(ply) == IF NeedsGeneration(ply) THEN RandomDraws ELSE {0}

MultiViewCall ==
    \E eval \in BOOLEAN, xyz_draw \in DrawsFor(disk.ply),
       shs_draw \in DrawsFor(disk.ply) :
        readMultiViewInfo(eval, xyz_draw, shs_draw)

(***************************************************************************)
(* Specifications: one per reader.  The variables of the other readers     *)
(* keep their idle values.                                                 *)
(***************************************************************************)
LoadCamIdle ==
    /\ WARNED = FALSE /\ stdout = 0 /\ camLog = <<>> /\ lastCam = None

TransformsIdle ==
    /\ tcall = NoValue /\ tpool = NoValue /\ tresults = <<>>
    /\ tbar = 0 /\ tret = [kind |-> "idle"]

NormIdle == ncams = <<>> /\ napply = FALSE /\ nrets = <<>>

SceneIdle == disk = [family |-> "none"] /\ loads = <<>>

InitLoadCam == LoadCamInit /\ TransformsIdle /\ NormIdle /\ SceneIdle
NextLoadCam == LoadCamCall /\ UNCHANGED <<transformsVars, normVars, sceneVars>>
SpecLoadCam == InitLoadCam /\ [][NextLoadCam]_vars

InitTransforms == TransformsInit /\ LoadCamIdle /\ NormIdle /\ SceneIdle
NextTransforms ==
    \/ WorkerTake /\ UNCHANGED <<loadCamVars, normVars, sceneVars>>
    \/ (\E i \in 1..MaxFrames : WorkerFinish(i)) /\ UNCHANGED <<loadCamVars, normVars, sceneVars>>
    \/ MapReturn /\ UNCHANGED <<loadCamVars, normVars, sceneVars>>
SpecTransforms == InitTransforms /\ [][NextTransforms]_vars

InitNorm == NormInit /\ LoadCamIdle /\ TransformsIdle /\ SceneIdle
NextNorm == NormCall /\ UNCHANGED <<loadCamVars, transformsVars, sceneVars>>
SpecNorm == InitNorm /\ [][NextNorm]_vars

InitColmap == ColmapInit /\ LoadCamIdle /\ TransformsIdle /\ NormIdle
NextColmap == ColmapCall /\ UNCHANGED <<loadCamVars, transformsVars, normVars>>
SpecColmap == InitColmap /\ [][NextColmap]_vars

InitNerfies == NerfiesInit /\ LoadCamIdle /\ TransformsIdle /\ NormIdle
NextNerfies == NerfiesCall /\ UNCHANGED <<loadCamVars, transformsVars, normVars>>
SpecNerfies == InitNerfies /\ [][NextNerfies]_vars

InitMultiView == MultiViewInit /\ LoadCamIdle /\ TransformsIdle /\ NormIdle
NextMultiView == MultiViewCall /\ UNCHANGED <<loadCamVars, transformsVars, normVars>>
SpecMultiView == InitMultiView /\ [][NextMultiView]_vars

\* The readers that load a COLMAP calibration.
InitCalibration == InitColmap \/ InitNerfies
NextCalibration == NextColmap \/ NextNerfies
SpecCalibration == InitCalibration /\ [][NextCalibration]_vars

\* Every reader of sceneLoadTypeCallbacks (dataset_readers.py:654-658).
InitReaders == InitColmap \/ InitNerfies \/ InitMultiView
NextReaders == NextColmap \/ NextNerfies \/ NextMultiView
SpecReaders == InitReaders /\ [][NextReaders]_vars

(***************************************************************************)
(* Claims about readCamerasFromTransforms                                  *)
(***************************************************************************)
RECURSIVE TrailingDigits(_)
\* The longest run of digits that ends the string.
TrailingDigits(s) ==
    IF Len(s) = 0 \/ s[Len(s)] \notin Digits THEN <<>>
    ELSE Append(TrailingDigits(SubSeq(s, 1, Len(s) - 1)), s[Len(s)])

\* The trailing numeric id of a file name.
TrailingId(name) == PyInt(TrailingDigits(name))

\* An end_frame cutoff was supplied: a number, and not the sentinel -1.
CutoffGiven == tcall.end_frame # NoValue /\ tcall.end_frame # Some(-1)

Returned == tret.kind = "returned"

FrameIdx == 1..Len(tcall.frames)

\* The input positions (1-based) of the returned records.
ReturnedIdx == {tret.cam_infos[k].uid + 1 : k \in 1..Len(tret.cam_infos)}

TimedDialects == {"neu3d", "technicolor", "immersive"}

IsDropped(i) ==
    /\ DatasetType(tcall) \in TimedDialects
    /\ CutoffGiven
    /\ PyInt(LastFour(tcall.frames[i].file_name)) > tcall.end_frame[1]

\* C4: whatever the order in which the workers finished, the returned list
\* is the input frame sequence with the dropped frames removed: one record
\* per kept frame, carrying that frame's index and name, in input order.
C4_InputOrder ==
    Returned =>
        /\ Len(tret.cam_infos) = Cardinality({i \in FrameIdx : ~IsDropped(i)})
        /\ \A k \in 1..Len(tret.cam_infos) :
              LET c == tret.cam_infos[k]
              IN  /\ c.uid + 1 \in FrameIdx
                  /\ ~IsDropped(c.uid + 1)
                  /\ c.image_name = tcall.frames[c.uid + 1].file_name
        /\ \A k, l \in 1..Len(tret.cam_infos) :
              k < l => tret.cam_infos[k].uid < tret.cam_infos[l].uid

\* C4 witness: a list was returned although a later frame finished before an
\* earlier one, both frames kept and a dropped frame in the same document.
C4_Witness ==
    /\ Returned
    /\ \E a, b \in 1..Len(tpool.finished) :
          /\ a < b /\ tpool.finished[a] > tpool.finished[b]
          /\ ~IsDropped(tpool.finished[a]) /\ ~IsDropped(tpool.finished[b])
    /\ \E i \in FrameIdx : IsDropped(i)

\* Equal rationals.
RatEq(a, b) == a[1] * b[2] = b[1] * a[2]

\* The dialect and the capture duration are these.
Classified(type, duration) ==
    /\ tpool.dataset_type = type
    /\ IF duration = NoValue THEN tpool.time_duration = NoValue
       ELSE /\ tpool.time_duration # NoValue
            /\ RatEq(tpool.time_duration[1], duration[1])

\* C14: a document is classified in this fixed precedence: a top-level
\* camera_angle_x key gives the uniform-FOV dialect with no capture
\* duration, whatever else is present; else all four of fl_x, fl_y, cx,
\* cy give the per-camera-intrinsics dialect with duration 10, whatever
\* the path; else a path containing 'technicolor' gives the rig dialect
\* with duration 10/6; else the generic multi-view dialect with duration
\* 10.
C14_DialectPrecedence ==
    tcall # NoValue =>
        IF "camera_angle_x" \in tcall.keys
        THEN Classified("blender", NoValue)
        ELSE IF {"fl_x", "fl_y", "cx", "cy"} \subseteq tcall.keys
        THEN Classified("neu3d", Some(<<10, 1>>))
        ELSE IF tcall.technicolor_path
        THEN Classified("technicolor", Some(<<5, 3>>))
        ELSE Classified("immersive", Some(<<10, 1>>))

\* C14: the case is reached: a document with the four intrinsics keys,
\* read from a path that contains 'technicolor', has been read to its end.
C14_Witness ==
    /\ Returned
    /\ tcall.keys = IntrinsicsKeys /\ tcall.technicolor_path
    /\ Len(tret.cam_infos) >= 1

\* No cutoff is in force: end_frame is left at its default (None) or is the
\* sentinel -1.
NoCutoff == tcall.end_frame = NoValue \/ tcall.end_frame = Some(-1)

\* Every frame of the document has a file name that ends in a numeral.
NumberedFrames ==
    \A i \in FrameIdx : IsNumeral(LastFour(tcall.frames[i].file_name))

\* The call is over: it returned or raised.
CallOver == tret.kind # "running"

\* C16: in a dialect with a capture duration, with no cutoff in force, the
\* call returns one record per frame, in input order, none dropped, and
\* the fid of each record is the time of its frame over the capture
\* duration.
C16_NoCutoffKeepsAll ==
    (/\ CallOver /\ DatasetType(tcall) \in TimedDialects
     /\ NoCutoff /\ NumberedFrames) =>
        /\ Returned
        /\ Len(tret.cam_infos) = Len(tcall.frames)
        /\ \A i \in FrameIdx :
              /\ tret.cam_infos[i].uid = i - 1
              /\ RatEq(tret.cam_infos[i].fid,
                       RatDiv(tcall.frames[i].time, tpool.time_duration[1]))

\* C16: the case is reached: a call with end_frame left at None on a
\* document of a timed dialect with MaxFrames numbered frames is over.
C16_Reached ==
    /\ CallOver /\ DatasetType(tcall) \in TimedDialects
    /\ tcall.end_frame = NoValue /\ NumberedFrames
    /\ Len(tcall.frames) = MaxFrames

(***************************************************************************)
(* Claims about readColmapStaticSceneInfo                                  *)
(***************************************************************************)
\* A valid COLMAP directory: a calibration that can be read, a supported
\* camera model, at least one image and every image file present.
ValidColmap ==
    /\ disk.family = "colmap"
    /\ disk.bin = "ok" \/ disk.txt = "ok"
    /\ disk.model \in SupportedModels
    /\ Len(disk.images) >= 1
    /\ disk.missing_image = 0

\* The split leaves a train camera for the normalizer: with evaluation on,
\* the image at position 0 is held out, so a second image is needed.
LeavesTrainCamera(eval) == eval => Len(disk.images) >= 2

ImageNameSeq(cams) == [i \in 1..Len(cams) |-> cams[i].fields.image_name]
Ascending(names) ==
    \A i, j \in 1..Len(names) : i < j => StrLess(names[i], names[j])
Range(f) == {f[i] : i \in DOMAIN f}

\* The position (0-based) of an image name in the ascending order of the
\* image names of the directory.
SortedPosition(name) ==
    Cardinality({x \in Range(disk.images) : StrLess(x, name)})

\* ceil(n / k)
CeilDiv(n, k) == (n + k - 1) \div k

\* C1: a load of a valid COLMAP directory with n images and no point-cloud
\* cache returns a scene whose train and test lists hold one CameraRecord
\* per image, n in all, each list in ascending image_name order, with
\* ceil(n/stride) test cameras when evaluation is on, and it creates the
\* cache file from the point list.
C1_ColmapLoadReturnsScene ==
    \A k \in 1..Len(loads) :
        (/\ ValidColmap /\ LeavesTrainCamera(loads[k].eval)
         /\ loads[k].ply_before = NoValue) =>
            /\ loads[k].outcome.kind = "SceneInfo"
            /\ LET train == ImageNameSeq(loads[k].outcome.train_cameras)
                   test == ImageNameSeq(loads[k].outcome.test_cameras)
               IN  /\ Len(train) + Len(test) = Len(disk.images)
                   /\ Range(train) \cup Range(test) = Range(disk.images)
                   /\ Ascending(train) /\ Ascending(test)
                   /\ loads[k].eval =>
                        Len(test) = CeilDiv(Len(disk.images), loads[k].llffhold)
            /\ loads[k].ply_after =
                 Some(storePly(disk.points.xyz, disk.points.rgb))

\* C1: the case is reached: a load of a valid directory with images and no
\* cache has run to its end.
C1_Reached ==
    /\ ValidColmap /\ Len(disk.images) = MaxImages
    /\ Len(loads) >= 1 /\ loads[1].ply_before = NoValue

\* C2: a load of a valid COLMAP directory returns train and test lists that
\* are disjoint and together hold every image once; with evaluation on, a
\* camera is a test camera iff its position in the image_name order is a
\* multiple of the stride; with evaluation off the test list is empty.
C2_HoldOutSplit ==
    \A k \in 1..Len(loads) :
        (ValidColmap /\ LeavesTrainCamera(loads[k].eval)) =>
            /\ loads[k].outcome.kind = "SceneInfo"
            /\ LET train == ImageNameSeq(loads[k].outcome.train_cameras)
                   test == ImageNameSeq(loads[k].outcome.test_cameras)
               IN  /\ Range(train) \cap Range(test) = {}
                   /\ Range(train) \cup Range(test) = Range(disk.images)
                   /\ Len(train) + Len(test) = Len(disk.images)
                   /\ IF loads[k].eval
                      THEN \A x \in Range(disk.images) :
                             x \in Range(test) <=>
                                SortedPosition(x) % loads[k].llffhold = 0
                      ELSE test = <<>>

\* C2: the case is reached: a load with evaluation on and stride 2 of a
\* valid directory with three images has run to its end.
C2_Reached ==
    /\ ValidColmap /\ Len(disk.images) = MaxImages
    /\ \E k \in 1..Len(loads) : loads[k].eval /\ loads[k].llffhold = 2

ReturnedScene(load) == load.outcome.kind = "SceneInfo"

(***************************************************************************)
(* Claims about readNerfiesInfo                                            *)
(***************************************************************************)
\* The selected image set: the train ids and the validation ids together.
SelectedIds == PlainTrainImg(disk) \o PlainValImg(disk)

\* A valid Nerfies capture: a manifest that selects images, a train image
\* with a positive time id and, in the COLMAP layout, a binary calibration
\* that can be read, a supported camera model and every image file present.
ValidNerfies ==
    /\ disk.family = "nerfies"
    /\ Len(disk.ids) >= 1
    /\ \E i \in 1..Len(PlainTrainImg(disk)) :
          TimeId(disk, PlainTrainImg(disk)[i]) > 0
    /\ disk.colmap =>
         /\ disk.bin = "ok"
         /\ disk.model \in SupportedModels
         /\ disk.missing_image = 0

\* The largest time id over the selected image set.
MaxSelectedTime ==
    CHOOSE t \in {TimeId(disk, SelectedIds[i]) : i \in 1..Len(SelectedIds)} :
        \A i \in 1..Len(SelectedIds) : TimeId(disk, SelectedIds[i]) <= t

\* C6: a load of a valid Nerfies capture, in the COLMAP layout and in the
\* plain layout alike, returns a scene in which the fid of every camera is
\* the time id of its image over the largest time id of the selected
\* image set (train and validation ids together).
C6_FidIsTimeOverMax ==
    \A k \in 1..Len(loads) :
        ValidNerfies =>
            /\ loads[k].outcome.kind = "SceneInfo"
            /\ LET cams == loads[k].outcome.train_cameras
                            \o loads[k].outcome.test_cameras
               IN  \A i \in 1..Len(cams) :
                     cams[i].fields.fid =
                        Rat(TimeId(disk, cams[i].fields.image_name), MaxSelectedTime)

\* C6: the case is reached: a load of a valid COLMAP-layout capture whose
\* time ids differ from the image numbers has run to its end.
C6_Reached ==
    /\ ValidNerfies /\ disk.colmap /\ disk.times = "offset"
    /\ Len(disk.ids) = MaxIds
    /\ Len(loads) >= 1

\* The camera poses a load returned.
ReturnedPoses(load) ==
    [train |-> PosesOf(load.outcome.train_cameras),
     test |-> PosesOf(load.outcome.test_cameras)]

\* C8: in the COLMAP layout, the load of a valid capture that finds no
\* recentered cache returns a scene, creates the cache and writes to the
\* side file the offset it moved the cameras by; a later load with the
\* same arguments leaves both files alone, moves the cameras by the offset
\* of the side file and returns the poses of the load that created the
\* cache.
C8_OffsetPersisted ==
    \A j \in 1..Len(loads) :
        (ValidNerfies /\ disk.colmap) =>
            /\ loads[j].outcome.kind = "SceneInfo"
            /\ IF loads[j].ply_before = NoValue
               THEN /\ loads[j].ply_after # NoValue
                    /\ loads[j].adj_after # NoValue
                    /\ \A i \in 1..Len(loads[j].outcome.train_cameras) :
                         loads[j].outcome.train_cameras[i].fields.T.moved_by
                            = loads[j].adj_after[1]
               ELSE /\ loads[j].ply_after = loads[j].ply_before
                    /\ loads[j].adj_after = loads[j].adj_before
                    /\ \A i \in 1..Len(loads[j].outcome.train_cameras) :
                         loads[j].outcome.train_cameras[i].fields.T.moved_by
                            = loads[j].adj_before[1]
            /\ \A i \in 1..(j - 1) :
                 (loads[i].ply_before = NoValue /\ loads[i].eval = loads[j].eval) =>
                     /\ loads[i].outcome.kind = "SceneInfo"
                     /\ ReturnedPoses(loads[j]) = ReturnedPoses(loads[i])

\* C8: the case is reached: two loads with the same arguments of a valid
\* COLMAP-layout capture, the first with no cache, have run to their ends.
C8_Reached ==
    /\ ValidNerfies /\ disk.colmap /\ Len(disk.ids) = MaxIds
    /\ Len(loads) = 2 /\ loads[1].ply_before = NoValue
    /\ loads[1].eval = loads[2].eval

\* The world position the reconstruction gives the image of this name.
ReconstructedCenter(name) ==
    LET k == CHOOSE k \in 1..Len(disk.images) : disk.images[k] = name
    IN  [v |-> <<k - 1, 0, 0>>, q |-> 1]

\* The position c after translation by apply_translate and division by
\* apply_radius, for the normalization of n train cameras: apply_translate
\* is its v over n sqrt(q), apply_radius the square root of
\* apply_radius2, so n c + v over the square root of the numerator of
\* apply_radius2.
NormalizedCenter(c, norm, n) ==
    [v |-> VAdd(VScale(n, c.v), norm.apply_translate[1].v),
     q |-> norm.apply_radius2[1][1]]

\* The camera is in the frame of the point cloud of the load: normalized,
\* then moved by the recentering offset of the side file.
InCloudFrame(cam, load) ==
    LET pose == [R |-> cam.fields.R, T |-> [v |-> cam.fields.T.v, q |-> cam.fields.T.q]]
        n == Len(load.outcome.train_cameras)
    IN  /\ Canon(CamCenter(pose))
             = Canon(NormalizedCenter(ReconstructedCenter(cam.fields.image_name),
                                      load.outcome.nerf_normalization, n))
        /\ load.adj_after # NoValue
        /\ cam.fields.T.moved_by = load.adj_after[1]

\* C17: a COLMAP-layout load of a valid capture with evaluation on returns
\* a scene in which every camera, test as well as train, has had the
\* transform of the point cloud applied to its world position:
\* translation by apply_translate, division by apply_radius, then
\* translation by the recentering offset.
C17_TestCamerasNormalized ==
    \A k \in 1..Len(loads) :
        (ValidNerfies /\ disk.colmap /\ loads[k].eval) =>
            /\ ReturnedScene(loads[k])
            /\ \A i \in 1..Len(loads[k].outcome.train_cameras) :
                  InCloudFrame(loads[k].outcome.train_cameras[i], loads[k])
            /\ \A i \in 1..Len(loads[k].outcome.test_cameras) :
                  InCloudFrame(loads[k].outcome.test_cameras[i], loads[k])

\* C17: the case is reached: a COLMAP-layout load with evaluation on of a
\* valid capture that has validation images has run to its end.
C17_Reached ==
    /\ ValidNerfies /\ disk.colmap /\ Len(disk.ids) = MaxIds
    /\ Len(PlainValImg(disk)) >= 1 /\ disk.name # "misc"
    /\ \E k \in 1..Len(loads) : loads[k].eval

(***************************************************************************)
(* Claims about the readers of a COLMAP calibration                        *)
(***************************************************************************)
\* C7: every load that reads a COLMAP calibration (readColmapStaticSceneInfo
\* and the COLMAP-layout Nerfies reader) tries the binary encoding first,
\* tries the text encoding when the binary one cannot be read, and fails
\* for want of a calibration only when neither can be read.
C7_BinaryThenText ==
    \A k \in 1..Len(loads) :
        loads[k].attempts # <<>> =>
            /\ loads[k].attempts[1] = "bin"
            /\ loads[k].attempts =
                 IF disk.bin = "ok" THEN <<"bin">> ELSE <<"bin", "txt">>
            /\ loads[k].outcome = Exc("CalibrationError") =>
                 disk.bin # "ok" /\ disk.txt # "ok"

\* C7: the case is reached: the COLMAP-layout Nerfies reader has loaded a
\* capture whose binary calibration cannot be read and whose text
\* calibration can.
C7_Reached ==
    /\ disk.family = "nerfies" /\ disk.colmap
    /\ disk.bin = "corrupt" /\ disk.txt = "ok"
    /\ \E k \in 1..Len(loads) : loads[k].attempts # <<>>

(***************************************************************************)
(* Claims about readMultiViewInfo                                          *)
(***************************************************************************)
\* C9: a load that finds no point-cloud file and returns generates exactly
\* 100000 points, writes them to the file and returns the cloud read back
\* from the file; a load that finds the file generates nothing, leaves the
\* file as it is and returns the cloud of the file, so a later load
\* returns the 100000 points of the load that created the file.
C9_CacheGeneratedOnce ==
    \A j \in 1..Len(loads) :
        (loads[j].reader = "Blender" /\ ReturnedScene(loads[j])) =>
            /\ IF loads[j].ply_before = NoValue
               THEN /\ loads[j].num_pts = Some(100000)
                    /\ loads[j].ply_after # NoValue
                    /\ loads[j].ply_after[1].n = 100000
                    /\ loads[j].outcome.point_cloud.kind = "BasicPointCloud"
                    /\ loads[j].outcome.point_cloud.n = 100000
                    /\ loads[j].outcome.point_cloud.points = loads[j].ply_after[1].xyz
               ELSE /\ loads[j].num_pts = NoValue
                    /\ loads[j].ply_after = loads[j].ply_before
                    /\ loads[j].ply_before[1].readable =>
                         /\ loads[j].outcome.point_cloud.kind = "BasicPointCloud"
                         /\ loads[j].outcome.point_cloud.points
                              = loads[j].ply_before[1].xyz
            /\ \A i \in 1..(j - 1) :
                 (ReturnedScene(loads[i]) /\ loads[i].ply_before = NoValue) =>
                     /\ loads[j].outcome.point_cloud = loads[i].outcome.point_cloud
                     /\ loads[j].outcome.point_cloud.n = 100000

\* C9: the case is reached: a load that found no file has returned, and a
\* second load has found the file and returned after it.
C9_Witness ==
    /\ disk.family = "multiview"
    /\ Len(loads) = 2
    /\ loads[1].ply_before = NoValue /\ ReturnedScene(loads[1])
    /\ loads[2].ply_before # NoValue /\ ReturnedScene(loads[2])
    /\ loads[2].outcome.point_cloud.n = 100000

(***************************************************************************)
(* Claims about the records of every reader                                *)
(***************************************************************************)
\* The reader of this load knows a temporal duration: every reader but the
\* multi-view reader on a document of the uniform-FOV dialect.
DurationKnown(load) ==
    load.reader = "Blender" => ~disk.camera_angle_x

\* The fids of the cameras a load returned.
ReturnedFids(load) ==
    LET cams == load.outcome.train_cameras \o load.outcome.test_cameras
    IN  {IF load.reader = "Blender" THEN cams[i].fid ELSE cams[i].fields.fid :
            i \in 1..Len(cams)}

InUnitInterval(x) == RatLeq(<<0, 1>>, x) /\ RatLeq(x, <<1, 1>>)

\* C15: a reader that knows a temporal duration returns its records, and
\* every record it returns has fid in [0, 1]: the COLMAP reader on a valid
\* directory, the Nerfies readers on a valid capture, and the multi-view
\* reader on a document of a dialect with a capture duration, with and
\* without a cutoff.
C15_FidInUnitInterval ==
    \A k \in 1..Len(loads) :
        /\ (loads[k].reader = "Colmap" /\ ValidColmap
              /\ LeavesTrainCamera(loads[k].eval)) => ReturnedScene(loads[k])
        /\ (loads[k].reader = "nerfies" /\ ValidNerfies) => ReturnedScene(loads[k])
        /\ (ReturnedScene(loads[k]) /\ DurationKnown(loads[k])) =>
              \A x \in ReturnedFids(loads[k]) : InUnitInterval(x)

\* C15: the case is reached: the COLMAP reader has loaded a valid directory
\* of three images, one of them named 10.
C15_Reached ==
    /\ ValidColmap /\ Len(disk.images) = MaxImages
    /\ \E i \in 1..Len(disk.images) : disk.images[i] = <<"1", "0">>
    /\ Len(loads) >= 1 /\ ~loads[1].eval

(***************************************************************************)
(* Claims about getNerfppNorm                                              *)
(***************************************************************************)
\* The first call was in bake-into-poses mode and found a bounding-sphere
\* radius of 0.
BakedZeroRadius ==
    /\ napply
    /\ Len(nrets) >= 1
    /\ nrets[1].kind = "dict"
    /\ nrets[1].apply_radius2[1][1] = 0

\* C5: in bake-into-poses mode a bounding-sphere radius of 0 is treated as 1:
\* nothing is divided by zero, every camera is only translated (to the
\* origin, where the common center goes) and its pose stays finite.
C5_ZeroRadiusFinite ==
    BakedZeroRadius =>
        \A i \in 1..Len(ncams) :
            /\ ~IsNaN(ncams[i].T)
            /\ Canon(CamCenter(ncams[i])) = [v |-> <<0, 0, 0>>, q |-> 1]

\* C5: the case is reached: one camera, baked, radius 0.
C5_Reached == BakedZeroRadius /\ Len(ncams) = 1

\* The zero vector, and the radius 1 (a radius is kept as its square).
IsZeroVector(p) == ~IsNaN(p) /\ p.v = <<0, 0, 0>>
IsOne(r2) == r2[1] = r2[2] /\ r2[2] # 0

\* The same poses: equal rotations, and translations that are the same
\* real vectors.
SamePoses(a, b) ==
    /\ Len(a) = Len(b)
    /\ \A i \in 1..Len(a) :
          a[i].R = b[i].R /\ Canon(a[i].T) = Canon(b[i].T)

\* The list was normalized once in bake-into-poses mode, with at least two
\* distinct camera centers (a radius that is not 0).
BakedOnce ==
    /\ napply
    /\ Len(nrets) = 1
    /\ nrets[1].kind = "dict"
    /\ nrets[1].apply_radius2[1][1] # 0

\* C12: a second bake-into-poses normalization of a list that was already
\* normalized in that mode finds the cameras centered with unit radius
\* (apply_translate = 0, apply_radius = 1), returns translate = 0 and
\* radius = 1 and leaves every R and T as it was.
C12_BakeIdempotent ==
    [][BakedOnce =>
          /\ Len(nrets') = 2
          /\ nrets'[2].kind = "dict"
          /\ IsZeroVector(nrets'[2].apply_translate[1])
          /\ IsOne(nrets'[2].apply_radius2[1])
          /\ IsZeroVector(nrets'[2].translate)
          /\ IsOne(nrets'[2].radius2)
          /\ SamePoses(ncams', ncams)]_vars

\* C12: the case is reached: three cameras, not all at one center, have
\* been normalized twice in bake-into-poses mode.
C12_Witness ==
    /\ napply /\ Len(nrets) = 2 /\ Len(ncams) = MaxCams
    /\ nrets[1].apply_radius2[1][1] # 0
    /\ \E i, j \in 1..Len(ncams) : Canon(ncams[i].T) # Canon(ncams[j].T)

\* The squared distance between the real vectors a and b of a common q, as
\* a rational.
Dist2(a, b) == <<Norm2(VAdd(a.v, VNeg(b.v))), a.q>>

\* n times the real vector p: p.v / sqrt(p.q) with q divided by n^2 is kept
\* by multiplying v.
Times(n, p) == [v |-> VScale(n, p.v), q |-> p.q]

\* The sum of the camera centers of a list whose poses share one q.
CenterSum(cams) ==
    [v |-> VSum([i \in 1..Len(cams) |-> CamCenter(cams[i]).v]),
     q |-> CamCenter(cams[1]).q]

\* r2 is the square of the largest distance from the centroid of the
\* camera centers to a camera center: n times each distance is the
\* distance from the sum of the centers to n times the center.
IsMaxDistance2(cams, r2) ==
    LET n == Len(cams)
        d2(i) == Dist2(Times(n, CamCenter(cams[i])), CenterSum(cams))
        scaled == <<r2[1] * n * n, r2[2]>>
    IN  /\ \A i \in 1..n : RatLeq(d2(i), scaled)
        /\ \E i \in 1..n : RatLeq(scaled, d2(i))

\* C13: a call in record-only mode (apply = False) leaves the camera list
\* and every record in it as they were and returns exactly translate =
\* minus the centroid of the camera centers and radius = the largest
\* distance from the centroid to a camera center, with no apply_translate
\* and no apply_radius.
C13_RecordOnly ==
    [][(~napply /\ Len(ncams) >= 1) =>
          LET ret == nrets'[Len(nrets')]
              n == Len(ncams)
          IN  /\ ncams' = ncams
              /\ ret.kind = "dict"
              /\ Canon(Times(n, ret.translate))
                    = Canon([v |-> VNeg(CenterSum(ncams).v), q |-> CenterSum(ncams).q])
              /\ IsMaxDistance2(ncams, ret.radius2)
              /\ ret.apply_translate = NoValue
              /\ ret.apply_radius2 = NoValue]_vars

\* C13: the case is reached: a record-only call on three cameras at
\* different distances from their centroid has returned.
C13_Witness ==
    /\ ~napply /\ Len(nrets) >= 1 /\ Len(ncams) = MaxCams
    /\ nrets[1].kind = "dict"
    /\ \E i \in 1..Len(ncams) :
          ~RatLeq(<<nrets[1].radius2[1] * MaxCams * MaxCams, nrets[1].radius2[2]>>,
                  Dist2(Times(MaxCams, CamCenter(ncams[i])), CenterSum(ncams)))

(***************************************************************************)
(* Claims about loadCam                                                    *)
(***************************************************************************)
\* Call i of the log is the first one with resolution = -1 whose image is
\* wider than the cap (decoded or not).
FirstWide(i) ==
    /\ camLog[i].resolution = -1 /\ camLog[i].orig_w > AutoCapWidth
    /\ \A j \in 1..(i - 1) :
          ~(camLog[j].resolution = -1 /\ camLog[j].orig_w > AutoCapWidth)

\* Call i is the first one that decodes its image, with resolution = -1 and
\* an image wider than the cap.
FirstWideDecoded(i) ==
    /\ Oversized(camLog[i].on_the_fly, camLog[i].resolution, camLog[i].orig_w)
    /\ \A j \in 1..(i - 1) :
          ~Oversized(camLog[j].on_the_fly, camLog[j].resolution, camLog[j].orig_w)

PrintedCalls == {i \in 1..Len(camLog) : camLog[i].printed}

\* C10 as stated: over calls that all have resolution = -1 the warning is
\* printed at most once, and the first call whose image width exceeds 1600
\* is a call that prints it.
C10_Original ==
    (\A i \in 1..Len(camLog) : camLog[i].resolution = -1) =>
        /\ stdout <= 1
        /\ \A i \in 1..Len(camLog) : FirstWide(i) => camLog[i].printed

\* C10 amended: in any sequence of loadCam calls the warning is printed at
\* most once, the call that prints it is exactly the first call that decodes
\* its image (load_image_on_the_fly off) with resolution = -1 and a width
\* above 1600, and the WARNED flag, once set, is never cleared.
C10_WarnedOnce ==
    /\ [](/\ stdout <= 1
          /\ stdout = Cardinality(PrintedCalls)
          /\ \A i \in 1..Len(camLog) : camLog[i].printed <=> FirstWideDecoded(i))
    /\ [][WARNED => WARNED']_vars

\* C10 witness: a call printed the warning and a later oversized call, which
\* decoded its image too, did not print it again.
C10_Witness ==
    \E i, j \in 1..Len(camLog) :
        /\ i < j
        /\ camLog[i].printed
        /\ Oversized(camLog[j].on_the_fly, camLog[j].resolution, camLog[j].orig_w)
        /\ ~camLog[j].printed
        /\ stdout = 1 /\ WARNED

\* The last call decoded its image.
Decoded == Len(camLog) >= 1 /\ ~camLog[Len(camLog)].on_the_fly

\* C11: whenever the decoded and resized tensor has a 4th channel the
\* alpha mask of the returned camera is that channel, and whenever it has
\* three channels the alpha mask is None, whatever the height and width.
C11_AlphaIffFourthChannel ==
    Decoded =>
        /\ lastCam.resized_image_rgb[1] = 4 => lastCam.gt_alpha_mask = "channel3"
        /\ lastCam.resized_image_rgb[1] = 3 => lastCam.gt_alpha_mask = None

\* C11: the case is reached: a four-channel image has been decoded to a
\* height other than 4.
C11_Reached ==
    /\ Decoded
    /\ lastCam.resized_image_rgb[1] = 4
    /\ lastCam.resized_image_rgb[2] # 4

=============================================================================
